---- MODULE Spec2Model ----
(***************************************************************************)
(* Model of surfsense_backend/app/utils/encryption.py: key derivation      *)
(* from the application secret, the lazily constructed process-wide Fernet *)
(* singleton, encrypt_value / decrypt_value and the EncryptedString column *)
(* type.                                                                   *)
(*                                                                         *)
(* Scale.  Strings are sequences of characters, byte strings sequences of  *)
(* 4-bit bytes (0..15).  The text encoding maps the twelve characters of   *)
(* Chr to the bytes 0..11; the bytes 12..15 are not text (as the bytes     *)
(* 0x80..0xFF are not ASCII).  Base64 keeps its shape at this width: 3     *)
(* bytes (12 bits) are written as 4 symbols of 3 bits, with one or two     *)
(* "=" after a final group of 2 or 1 bytes.  A Fernet token is             *)
(*   version | iv | CBC ciphertext of the PKCS7-padded plaintext | tag     *)
(* run through base64.  sha256, the block cipher and the HMAC are replaced *)
(* by small keyed arithmetic that is collision-free on the values the      *)
(* model reaches; the token's timestamp field is left out (decrypt is      *)
(* called without a ttl and never reads it).                               *)
(*                                                                         *)
(* The second half models surfsense_backend/app/services/chat_service.py   *)
(* and the routes of app/routes/new_chat_routes.py that write: threads and *)
(* messages behind check_permission, the auto-title of append_message,     *)
(* handle_new_chat up to the call of stream_new_chat, and the temporary    *)
(* file of process_attachment.  Titles and message texts are sequences of  *)
(* characters at their real length (TitleLimit is 100).                    *)
(***************************************************************************)
EXTENDS Integers, Sequences, FiniteSets, TLC

\* ------------------------------------------------------------------ bounds
\* longest plaintext handed to encrypt_value
MaxLen == 2
\* number of distinct random IVs os.urandom may return to Fernet.encrypt
NumIV == 2
\* the threads that are ever created
MaxThreads == 2
\* the time of the last write that is modelled (time starts at 1 and passes
\* with every write)
MaxClock == 3
\* the temporary files that are ever on disk at one time
MaxFiles == 2

\* --------------------------------------------------------- python values
\* None and str, for the values that may be either (SECRET_KEY, column values)
PyNone == [none |-> TRUE, s |-> <<>>]
PyStr(s) == [none |-> FALSE, s |-> s]
\* Python truthiness of an optional string: None and "" are falsy
Truthy(v) == ~v.none /\ v.s # <<>>

\* outcome of a call: a returned value or a raised exception
Ok(v) == [exc |-> "", val |-> v]
Raise(e) == [exc |-> e, val |-> <<>>]
Raised(r) == r.exc # ""

\* ------------------------------------------------------------ text codec
\* the characters, in code-point order: Chr[b + 1] is the character of byte b
Chr == <<"!", "#", "=", "?", "A", "B", "C", "D", "E", "F", "G", "H">>
Chars == {Chr[i] : i \in 1..Len(Chr)}
Ord(c) == (CHOOSE i \in 1..Len(Chr) : Chr[i] = c) - 1
Bytes == 0..15

\* str.encode(): one byte per character
str_encode(s) == [i \in 1..Len(s) |-> Ord(s[i])]
\* bytes.decode(): UnicodeDecodeError on a byte that is no character
bytes_decode(bs) ==
    IF \E i \in 1..Len(bs) : bs[i] >= Len(Chr)
    THEN Raise("UnicodeDecodeError")
    ELSE Ok([i \in 1..Len(bs) |-> Chr[bs[i] + 1]])

\* ---------------------------------------------------------------- base64
\* the alphabet: symbol value v (0..7) is written as the byte of "A" + v
B64Sym(v) == Ord("A") + v
B64Pad == Ord("=")
IsB64Sym(b) == b >= Ord("A") /\ b <= Ord("H")
B64Val(b) == b - Ord("A")

\* base64.urlsafe_b64encode: 3 bytes -> 4 symbols; a last group of 1 byte ->
\* 2 symbols and "==", of 2 bytes -> 3 symbols and "=" (unused low bits zero)
RECURSIVE urlsafe_b64encode(_)
urlsafe_b64encode(bs) ==
    IF bs = <<>> THEN <<>>
    ELSE IF Len(bs) = 1 THEN
        LET v == bs[1] * 4
        IN  <<B64Sym(v \div 8), B64Sym(v % 8), B64Pad, B64Pad>>
    ELSE IF Len(bs) = 2 THEN
        LET v == (bs[1] * 16 + bs[2]) * 2
        IN  <<B64Sym(v \div 64), B64Sym((v \div 8) % 8), B64Sym(v % 8), B64Pad>>
    ELSE
        LET v == bs[1] * 256 + bs[2] * 16 + bs[3]
        IN  <<B64Sym(v \div 512), B64Sym((v \div 64) % 8),
              B64Sym((v \div 8) % 8), B64Sym(v % 8)>>
            \o urlsafe_b64encode(SubSeq(bs, 4, Len(bs)))

\* base64.urlsafe_b64decode (binascii.a2b_base64, not strict): bytes outside
\* the alphabet are skipped, a complete run of "=" ends the input, the low
\* bits left over in the last symbol are dropped without being looked at,
\* and input that stops inside a group is an error (binascii.Error)
RECURSIVE a2b_base64(_, _, _, _, _, _)
a2b_base64(bs, i, quad_pos, leftchar, pads, out) ==
    IF i > Len(bs) THEN
        IF quad_pos # 0 THEN Raise("binascii.Error") ELSE Ok(out)
    ELSE IF bs[i] = B64Pad THEN
        IF quad_pos >= 2 /\ quad_pos + pads + 1 >= 4
        THEN Ok(out)
        ELSE a2b_base64(bs, i + 1, quad_pos, leftchar,
                        IF quad_pos >= 2 THEN pads + 1 ELSE pads, out)
    ELSE IF ~IsB64Sym(bs[i]) THEN
        a2b_base64(bs, i + 1, quad_pos, leftchar, pads, out)
    ELSE
        LET v == B64Val(bs[i])
        IN  CASE quad_pos = 0 ->
                   a2b_base64(bs, i + 1, 1, v, 0, out)
              [] quad_pos = 1 ->
                   a2b_base64(bs, i + 1, 2, v % 4, 0,
                              Append(out, leftchar * 2 + v \div 4))
              [] quad_pos = 2 ->
                   a2b_base64(bs, i + 1, 3, v % 2, 0,
                              Append(out, leftchar * 4 + v \div 2))
              [] OTHER ->
                   a2b_base64(bs, i + 1, 0, 0, 0,
                              Append(out, leftchar * 8 + v))
urlsafe_b64decode(bs) == a2b_base64(bs, 1, 0, 0, 0, <<>>)

\* ------------------------------------------------------------ primitives
\* hashlib.sha256(...).digest(): a digest of fixed size (2 bytes here)
RECURSIVE sha256_update(_, _, _)
sha256_update(h, bs, i) ==
    IF i > Len(bs) THEN h
    ELSE sha256_update((h * 5 + bs[i] + 1) % 256, bs, i + 1)
sha256(bs) ==
    LET h == sha256_update(106, bs, 1)
    IN  <<h \div 16, h % 16>>

\* first byte of every Fernet token (0x80)
FernetVersion == 8
\* block size of the cipher, in bytes (AES: 16)
BlockSize == 2
\* the values os.urandom returns for the IV
IVs == 0..(NumIV - 1)

\* padding.PKCS7(block).padder(): 1..BlockSize bytes, each the pad length
PKCS7_pad(bs) ==
    LET n == BlockSize - (Len(bs) % BlockSize)
    IN  bs \o [i \in 1..n |-> n]
\* padding.PKCS7(block).unpadder(): ValueError unless the padding is intact
PKCS7_unpad(bs) ==
    IF bs = <<>> \/ Len(bs) % BlockSize # 0 THEN Raise("ValueError")
    ELSE LET n == bs[Len(bs)]
         IN  IF n < 1 \/ n > BlockSize
                \/ \E i \in (Len(bs) - n + 1)..Len(bs) : bs[i] # n
             THEN Raise("ValueError")
             ELSE Ok(SubSeq(bs, 1, Len(bs) - n))

\* Cipher(AES(key), CBC(iv)): each byte is chained to the ciphertext before it
RECURSIVE CBC_encrypt(_, _, _, _)
CBC_encrypt(key, prev, bs, i) ==
    IF i > Len(bs) THEN <<>>
    ELSE LET c == (bs[i] + key + prev + 1) % 16
         IN  <<c>> \o CBC_encrypt(key, c, bs, i + 1)
CBC_decrypt(key, iv, cs) ==
    [i \in 1..Len(cs) |->
        (cs[i] - key - (IF i = 1 THEN iv ELSE cs[i - 1]) - 1) % 16]

\* HMAC(signing_key, SHA256) over the token body: a keyed tag that no two
\* bodies share
HMAC(key, bs) == [i \in 1..Len(bs) |-> (bs[i] + key + 3 * i) % 16]

\* ---------------------------------------------------------------- Fernet
\* the Fernet object built from a key, and the module global before that
NoFernet == [none |-> TRUE, signing_key |-> 0, encryption_key |-> 0]
\* Fernet(key): the key is base64 of 2 bytes (32 in the library), the
\* signing key first and the encryption key second
Fernet(key) ==
    LET raw == urlsafe_b64decode(key)
    IN  IF Raised(raw) \/ Len(raw.val) # 2 THEN Raise("ValueError")
        ELSE Ok([none |-> FALSE, signing_key |-> raw.val[1],
                 encryption_key |-> raw.val[2]])

\* Fernet.encrypt(data) with the IV drawn by os.urandom
Fernet_encrypt(f, data, iv) ==
    LET ciphertext == CBC_encrypt(f.encryption_key, iv, PKCS7_pad(data), 1)
        basic_parts == <<FernetVersion, iv>> \o ciphertext
    IN  urlsafe_b64encode(basic_parts \o HMAC(f.signing_key, basic_parts))

\* Fernet.decrypt(token): InvalidToken unless the token decodes, starts with
\* the version byte, carries the tag of its body and unpads
Fernet_decrypt(f, token) ==
    LET d == urlsafe_b64decode(token)
    IN  IF Raised(d) THEN Raise("InvalidToken")
        ELSE IF d.val = <<>> \/ d.val[1] # FernetVersion THEN Raise("InvalidToken")
        ELSE IF Len(d.val) < 4 \/ Len(d.val) % 2 # 0 THEN Raise("InvalidToken")
        ELSE LET n == Len(d.val) \div 2
                 basic_parts == SubSeq(d.val, 1, n)
                 tag == SubSeq(d.val, n + 1, 2 * n)
                 iv == basic_parts[2]
                 ciphertext == SubSeq(basic_parts, 3, n)
             IN  IF tag # HMAC(f.signing_key, basic_parts)
                 THEN Raise("InvalidToken")
                 ELSE LET plain == PKCS7_unpad(
                                 CBC_decrypt(f.encryption_key, iv, ciphertext))
                      IN  IF Raised(plain) THEN Raise("InvalidToken") ELSE plain

\* ----------------------------------------------------------- encryption.py
\* the literal "default-insecure-secret-key-for-dev"
DefaultSecret == <<"D", "E", "F">>
\* ENVIRONMENT not set in the process environment
NoEnv == "<unset>"
\* os.getenv(name, default)
getenv(value, default) == IF value = NoEnv THEN default ELSE value

\* get_encryption_key as it would be without the production check
get_encryption_key_unchecked(secret, env) ==
    Ok(urlsafe_b64encode(sha256(str_encode(
        IF Truthy(secret) THEN secret.s ELSE DefaultSecret))))

\* get_encryption_key as it would be with "production" as the default of
\* os.getenv
get_encryption_key_default_production(secret, env) ==
    IF ~Truthy(secret) THEN
        IF getenv(env, "production") = "production"
        THEN Raise("ValueError")
        ELSE Ok(urlsafe_b64encode(sha256(str_encode(DefaultSecret))))
    ELSE Ok(urlsafe_b64encode(sha256(str_encode(secret.s))))

\* get_encryption_key as it would be if the deployment's name went into the
\* hash with the secret
get_encryption_key_salted(secret, env) ==
    IF ~Truthy(secret) THEN
        IF getenv(env, "development") = "production"
        THEN Raise("ValueError")
        ELSE Ok(urlsafe_b64encode(sha256(str_encode(DefaultSecret))))
    ELSE Ok(urlsafe_b64encode(sha256(
            str_encode(secret.s)
            \o (IF getenv(env, "development") = "production" THEN <<1>> ELSE <<>>))))

\* get_encryption_key() under config.SECRET_KEY = secret, ENVIRONMENT = env
get_encryption_key(secret, env) ==
    IF ~Truthy(secret) THEN
        IF getenv(env, "development") = "production"
        THEN Raise("ValueError")
        ELSE Ok(urlsafe_b64encode(sha256(str_encode(DefaultSecret))))
    ELSE Ok(urlsafe_b64encode(sha256(str_encode(secret.s))))

\* line 37 as it would be if the new object were not stored in the global
construct_fernet_not_stored(cur, secret, env) ==
    LET key == get_encryption_key(secret, env)
    IN  IF Raised(key) THEN [out |-> key, fernet |-> cur, derived |-> TRUE]
        ELSE [out |-> Fernet(key.val), fernet |-> cur, derived |-> TRUE]

\* line 37, _fernet = Fernet(get_encryption_key()), with _fernet = cur before
\* it: the outcome, the new value of the global, and that the key was derived
construct_fernet(cur, secret, env) ==
    LET key == get_encryption_key(secret, env)
    IN  IF Raised(key) THEN [out |-> key, fernet |-> cur, derived |-> TRUE]
        ELSE LET f == Fernet(key.val)
             IN  [out |-> f,
                  fernet |-> IF Raised(f) THEN cur ELSE f.val,
                  derived |-> TRUE]

\* get_fernet as it would be without the test of line 36
get_fernet_uncached(cur, secret, env) == construct_fernet(cur, secret, env)

\* get_fernet() with the module global _fernet = cur
get_fernet(cur, secret, env) ==
    IF cur.none THEN construct_fernet(cur, secret, env)
    ELSE [out |-> Ok(cur), fernet |-> cur, derived |-> FALSE]

\* encrypt_value's last line as it would be with a Fernet that always
\* used one initialisation vector
encrypt_with_fixed_iv(f, value, iv) ==
    bytes_decode(Fernet_encrypt(f, str_encode(value), 0))

\* encrypt_value's last line, with the Fernet object f in hand
encrypt_with(f, value, iv) ==
    bytes_decode(Fernet_encrypt(f, str_encode(value), iv))

\* decrypt_value's line 53, with the Fernet object f in hand
decrypt_with(f, value) ==
    LET plain == Fernet_decrypt(f, str_encode(value))
    IN  IF Raised(plain) THEN plain ELSE bytes_decode(plain.val)

\* the except clause as it would be if it caught InvalidToken alone
except_InvalidToken(r, value) ==
    IF r.exc = "InvalidToken" THEN Ok(value) ELSE r

\* decrypt_value's except clause: any exception of the try body returns value
except_Exception(r, value) == IF Raised(r) THEN Ok(value) ELSE r

\* encrypt_value as it would be without the test of line 42
encrypt_value_no_empty_test(cur, secret, env, value, iv) ==
    LET g == get_fernet(cur, secret, env)
    IN  [out |-> IF Raised(g.out) THEN g.out
                 ELSE encrypt_with(g.out.val, value, iv),
         fernet |-> g.fernet, derived |-> g.derived]

\* encrypt_value(value): the outcome, the new _fernet, whether the key was
\* derived
encrypt_value(cur, secret, env, value, iv) ==
    IF value = <<>> THEN [out |-> Ok(value), fernet |-> cur, derived |-> FALSE]
    ELSE LET g == get_fernet(cur, secret, env)
         IN  [out |-> IF Raised(g.out) THEN g.out
                      ELSE encrypt_with(g.out.val, value, iv),
              fernet |-> g.fernet, derived |-> g.derived]

\* decrypt_value as it would be if it used the global _fernet in place of
\* get_fernet(): on None the AttributeError is caught and value returned
decrypt_value_global(cur, secret, env, value) ==
    IF value = <<>> THEN [out |-> Ok(value), fernet |-> cur, derived |-> FALSE]
    ELSE [out |-> except_Exception(
                      IF cur.none THEN Raise("AttributeError")
                      ELSE decrypt_with(cur, value), value),
          fernet |-> cur, derived |-> FALSE]

\* decrypt_value(value)
decrypt_value(cur, secret, env, value) ==
    IF value = <<>> THEN [out |-> Ok(value), fernet |-> cur, derived |-> FALSE]
    ELSE LET g == get_fernet(cur, secret, env)
         IN  [out |-> except_Exception(
                          IF Raised(g.out) THEN g.out
                          ELSE decrypt_with(g.out.val, value), value),
              fernet |-> g.fernet, derived |-> g.derived]

\* process_bind_param as it would be if the column type were left unwired
\* and handed the value to storage as it is
process_bind_param_plain(cur, secret, env, value, iv) ==
    [out |-> Ok(IF value.none THEN value ELSE value.s), fernet |-> cur,
     derived |-> FALSE]

\* process_bind_param as it would be if it fetched the Fernet object before
\* it looked at the value
process_bind_param_eager(cur, secret, env, value, iv) ==
    LET g == get_fernet(cur, secret, env)
    IN  IF Raised(g.out) THEN [out |-> g.out, fernet |-> g.fernet,
                               derived |-> g.derived]
        ELSE IF ~value.none
        THEN [out |-> encrypt_with(g.out.val, value.s, iv),
              fernet |-> g.fernet, derived |-> g.derived]
        ELSE [out |-> Ok(value), fernet |-> g.fernet, derived |-> g.derived]

\* EncryptedString.process_bind_param(value): None is passed through
process_bind_param(cur, secret, env, value, iv) ==
    IF ~value.none THEN encrypt_value(cur, secret, env, value.s, iv)
    ELSE [out |-> Ok(value), fernet |-> cur, derived |-> FALSE]

\* process_result_value as it would be if it returned the stored value
process_result_value_raw(cur, secret, env, value) ==
    [out |-> Ok(IF value.none THEN value ELSE value.s), fernet |-> cur,
     derived |-> FALSE]

\* EncryptedString.process_result_value(value): None is passed through
process_result_value(cur, secret, env, value) ==
    IF ~value.none THEN decrypt_value(cur, secret, env, value.s)
    ELSE [out |-> Ok(value), fernet |-> cur, derived |-> FALSE]

\* ========================================================== chat_service.py
\* The chat threads and their messages live in a relational database that
\* ChatService reaches through a session of its own for every request.  A
\* database is the rows of the two tables; a session is the image of the
\* database with the request's uncommitted changes applied (view) and
\* whether its transaction can still be used (active).

\* the thread ids, and the search space ids that requests name
ThreadIds == 1..MaxThreads
SpaceIds == {1, 2}
Permissions == {"CHATS_CREATE", "CHATS_READ", "CHATS_UPDATE", "CHATS_DELETE"}

\* thread.title of a thread that has not been named
NewChat == <<"N", "e", "w", " ", "C", "h", "a", "t">>
\* the length _update_thread_title cuts a title at, and what it puts after
TitleLimit == 100
Ellipsis == <<".", ".", ".">>

\* no row of new_chat_threads with that id
NoThread == [exists |-> FALSE, title |-> <<>>, archived |-> FALSE,
             search_space_id |-> 0, updated_at |-> 0]
NewChatThread(title, archived, search_space_id, updated_at) ==
    [exists |-> TRUE, title |-> title, archived |-> archived,
     search_space_id |-> search_space_id, updated_at |-> updated_at]
NewChatMessage(thread_id, role, content) ==
    [thread_id |-> thread_id, role |-> role, content |-> content]

\* the database with no thread and no message
EmptyDb == [threads |-> [i \in ThreadIds |-> NoThread], messages |-> <<>>,
            next_id |-> 1]

\* message content as the request body gives it: a string, a list of parts,
\* or any other JSON value (s is then what str() makes of it)
StrContent(s) == [kind |-> "str", s |-> s, parts |-> <<>>]
ListContent(parts) == [kind |-> "list", s |-> <<>>, parts |-> parts]
OtherContent(s) == [kind |-> "other", s |-> s, parts |-> <<>>]
\* the parts of a list: {"type": "text", "text": s}, {"type": "text"} with
\* no text key, {"type": "text", "text": <a number>}, a dict of another
\* type, a string, and a value that is neither dict nor string
TextPart(s) == [kind |-> "text", s |-> s]
TextPartNoKey == [kind |-> "text_nokey", s |-> <<>>]
TextPartNumber == [kind |-> "text_number", s |-> <<>>]
ImagePart == [kind |-> "dict", s |-> <<>>]
StrPart(s) == [kind |-> "str", s |-> s]
NumberPart == [kind |-> "other", s |-> <<>>]

\* a body with no role (or an empty one), a body with no content
NoRole == ""
NoContent == [kind |-> "null", s |-> <<>>, parts |-> <<>>]

\* str.lower() on the role strings that requests send
lower(role) ==
    CASE role = "USER" -> "user"
      [] role = "User" -> "user"
      [] role = "Assistant" -> "assistant"
      [] OTHER -> role

\* NewChatMessageRole(role_str) raises ValueError for any other string
NewChatMessageRole == {"user", "assistant", "system"}

\* a request's own session on the database as stored
Session(stored) == [active |-> TRUE, view |-> stored]

\* check_permission(session, user, search_space_id, permission, message):
\* returns when the user holds the permission in the search space, raises
\* HTTPException(403) otherwise
check_permission(granted, search_space_id, permission) ==
    IF <<search_space_id, permission>> \in granted THEN 200 ELSE 403

\* select(NewChatThread).filter(NewChatThread.id == thread_id) ... first()
select_thread(session, thread_id) ==
    IF thread_id \in ThreadIds THEN session.view.threads[thread_id]
    ELSE NoThread

\* session.commit(): the view becomes the stored rows, or the database
\* refuses (outcome names the error), keeps its rows and the session's
\* transaction can no longer be used
commit(stored, session, outcome) ==
    IF outcome = "ok"
    THEN [exc |-> "", db |-> session.view, session |-> session]
    ELSE [exc |-> outcome, db |-> stored,
          session |-> [session EXCEPT !.active = FALSE]]

\* session.rollback(): the uncommitted changes are dropped
rollback(stored, session) == [active |-> TRUE, view |-> stored]

\* what a call hands back: the HTTP status (200: it returned), the rows
\* stored and the session afterwards, and how the commit it reached went
\* ("none": it reached none)
Returned(status, stored, session, committed) ==
    [status |-> status, db |-> stored, session |-> session,
     commit |-> committed]

\* the except clauses as they would be without the rollback
except_database_errors_no_rollback(stored, session, exc, committed) ==
    Returned(IF exc = "IntegrityError" THEN 400 ELSE 503, stored, session,
             committed)

\* except IntegrityError: rollback, 400; except OperationalError: rollback,
\* 503 (the same two clauses close create_thread, update_thread,
\* delete_thread and append_message)
except_database_errors(stored, session, exc, committed) ==
    Returned(IF exc = "IntegrityError" THEN 400 ELSE 503, stored,
             rollback(stored, session), committed)

\* await session.commit() as the last statement of a try block
try_commit(stored, session, outcome) ==
    LET c == commit(stored, session, outcome)
    IN  IF c.exc = "" THEN Returned(200, c.db, c.session, outcome)
        ELSE except_database_errors(c.db, c.session, c.exc, outcome)

\* ChatService.create_thread(thread_data)
create_thread(stored, granted, now, thread_data, outcome) ==
    LET perm == check_permission(granted, thread_data.search_space_id,
                                 "CHATS_CREATE")
        id == stored.next_id
        session == [Session(stored) EXCEPT
                      !.view.threads[id] =
                          NewChatThread(thread_data.title, thread_data.archived,
                                        thread_data.search_space_id, now),
                      !.view.next_id = id + 1]
    IN  IF perm # 200 THEN Returned(perm, stored, Session(stored), "none")
        ELSE try_commit(stored, session, outcome)

\* thread_update.model_dump(exclude_unset=True) applied with setattr: the
\* fields the request sets replace the thread's
set_attributes(thread, thread_update) ==
    [thread EXCEPT
       !.title = IF thread_update.title.none THEN @ ELSE thread_update.title.s,
       !.archived = IF thread_update.archived = "unset" THEN @
                    ELSE thread_update.archived = "true"]

\* ChatService.update_thread(thread_id, thread_update); select_fails: the
\* database is out of reach when the thread is fetched
update_thread(stored, granted, now, thread_id, thread_update, select_fails, outcome) ==
    LET s0 == Session(stored)
        db_thread == select_thread(s0, thread_id)
        perm == check_permission(granted, db_thread.search_space_id,
                                 "CHATS_UPDATE")
        session == [s0 EXCEPT
                      !.view.threads[thread_id] =
                          [set_attributes(db_thread, thread_update)
                             EXCEPT !.updated_at = now]]
    IN  IF select_fails
        THEN except_database_errors(stored, s0, "OperationalError", "none")
        ELSE IF ~db_thread.exists THEN Returned(404, stored, s0, "none")
        ELSE IF perm # 200 THEN Returned(perm, stored, s0, "none")
        ELSE try_commit(stored, session, outcome)

\* the messages of a thread go with it (the relationship cascades)
delete_cascade(messages, thread_id) ==
    SelectSeq(messages, LAMBDA m : m.thread_id # thread_id)

\* delete_thread as it would be if it asked for the permission to update
delete_thread_update_permission(stored, granted, thread_id, select_fails, outcome) ==
    LET s0 == Session(stored)
        db_thread == select_thread(s0, thread_id)
        perm == check_permission(granted, db_thread.search_space_id,
                                 "CHATS_UPDATE")
        session == [s0 EXCEPT
                      !.view.threads[thread_id] = NoThread,
                      !.view.messages = delete_cascade(@, thread_id)]
    IN  IF select_fails
        THEN except_database_errors(stored, s0, "OperationalError", "none")
        ELSE IF ~db_thread.exists THEN Returned(404, stored, s0, "none")
        ELSE IF perm # 200 THEN Returned(perm, stored, s0, "none")
        ELSE try_commit(stored, session, outcome)

\* ChatService.delete_thread(thread_id)
delete_thread(stored, granted, thread_id, select_fails, outcome) ==
    LET s0 == Session(stored)
        db_thread == select_thread(s0, thread_id)
        perm == check_permission(granted, db_thread.search_space_id,
                                 "CHATS_DELETE")
        session == [s0 EXCEPT
                      !.view.threads[thread_id] = NoThread,
                      !.view.messages = delete_cascade(@, thread_id)]
    IN  IF select_fails
        THEN except_database_errors(stored, s0, "OperationalError", "none")
        ELSE IF ~db_thread.exists THEN Returned(404, stored, s0, "none")
        ELSE IF perm # 200 THEN Returned(perm, stored, s0, "none")
        ELSE try_commit(stored, session, outcome)

\* the loop of _update_thread_title over the parts of a list, from part i:
\* the text of the first part that is a text dict or a string
RECURSIVE first_text(_, _)
first_text(parts, i) ==
    IF i > Len(parts) THEN Ok(<<>>)
    ELSE IF parts[i].kind \in {"text", "str"} THEN Ok(parts[i].s)
    ELSE IF parts[i].kind = "text_nokey" THEN Ok(<<>>)
    ELSE IF parts[i].kind = "text_number" THEN Raise("TypeError")
    ELSE first_text(parts, i + 1)

\* title_text as _update_thread_title finds it in the content
title_text(content) ==
    IF content.kind = "list" THEN first_text(content.parts, 1)
    ELSE Ok(content.s)

\* title_text[:n]
Slice(s, n) == SubSeq(s, 1, IF Len(s) < n THEN Len(s) ELSE n)

\* ChatService._update_thread_title(thread, content): the thread with its
\* new title, or the TypeError of slicing a number
update_thread_title(thread, content) ==
    LET text == title_text(content)
    IN  IF Raised(text) THEN text
        ELSE IF text.val # <<>>
        THEN Ok([thread EXCEPT
                   !.title = Slice(text.val, TitleLimit)
                             \o (IF Len(text.val) > TitleLimit THEN Ellipsis
                                 ELSE <<>>)])
        ELSE Ok(thread)

\* append_message as it would be if it retitled on every user message
append_message_always_titles(stored, granted, now, thread_id, role, content, select_fails, outcome) ==
    LET s0 == Session(stored)
        thread == select_thread(s0, thread_id)
        perm == check_permission(granted, thread.search_space_id,
                                 "CHATS_UPDATE")
        role_str == lower(role)
        s1 == [s0 EXCEPT
                 !.view.messages =
                     Append(@, NewChatMessage(thread_id, role_str, content)),
                 !.view.threads[thread_id].updated_at = now]
        titled == IF role_str = "user"
                  THEN update_thread_title(s1.view.threads[thread_id], content)
                  ELSE Ok(s1.view.threads[thread_id])
    IN  IF select_fails
        THEN except_database_errors(stored, s0, "OperationalError", "none")
        ELSE IF ~thread.exists THEN Returned(404, stored, s0, "none")
        ELSE IF perm # 200 THEN Returned(perm, stored, s0, "none")
        ELSE IF role_str \notin NewChatMessageRole
        THEN Returned(400, stored, s0, "none")
        ELSE IF Raised(titled) THEN Returned(500, stored, s1, "none")
        ELSE try_commit(stored,
                        [s1 EXCEPT !.view.threads[thread_id] = titled.val],
                        outcome)

\* ChatService.append_message(thread_id, role, content); a TypeError of
\* _update_thread_title passes both except clauses (no rollback) and the
\* application answers 500
append_message(stored, granted, now, thread_id, role, content, select_fails, outcome) ==
    LET s0 == Session(stored)
        thread == select_thread(s0, thread_id)
        perm == check_permission(granted, thread.search_space_id,
                                 "CHATS_UPDATE")
        role_str == lower(role)
        s1 == [s0 EXCEPT
                 !.view.messages =
                     Append(@, NewChatMessage(thread_id, role_str, content)),
                 !.view.threads[thread_id].updated_at = now]
        titled == IF thread.title = NewChat /\ role_str = "user"
                  THEN update_thread_title(s1.view.threads[thread_id], content)
                  ELSE Ok(s1.view.threads[thread_id])
    IN  IF select_fails
        THEN except_database_errors(stored, s0, "OperationalError", "none")
        ELSE IF ~thread.exists THEN Returned(404, stored, s0, "none")
        ELSE IF perm # 200 THEN Returned(perm, stored, s0, "none")
        ELSE IF role_str \notin NewChatMessageRole
        THEN Returned(400, stored, s0, "none")
        ELSE IF Raised(titled) THEN Returned(500, stored, s1, "none")
        ELSE try_commit(stored,
                        [s1 EXCEPT !.view.threads[thread_id] = titled.val],
                        outcome)

\* the append_message route: role and content are taken from the raw body
\* (NoRole: the body has no role, or an empty one; content.kind = "null":
\* it has no content) and the service is not called without them
append_message_route(stored, granted, now, thread_id, role, content, select_fails, outcome) ==
    IF role = NoRole THEN Returned(400, stored, Session(stored), "none")
    ELSE IF content.kind = "null"
    THEN Returned(400, stored, Session(stored), "none")
    ELSE append_message(stored, granted, now, thread_id, role, content,
                        select_fails, outcome)

\* ======================================================= new_chat_routes.py
\* request.chat_id: an integer or None
PyInt(n) == [none |-> FALSE, n |-> n]
NoneInt == [none |-> TRUE, n |-> 0]

\* ChatService.verify_thread_access(thread_id, search_space_id): the status
\* (200: it returned the thread) and the tests it made; select_fails: the
\* database is out of reach
verify_thread_access(stored, thread_id, search_space_id, select_fails) ==
    LET thread == select_thread(Session(stored), thread_id)
    IN  IF select_fails THEN [status |-> 503, checks |-> <<>>]
        ELSE IF ~thread.exists
        THEN [status |-> 404, checks |-> <<"thread_exists">>]
        ELSE IF thread.search_space_id # search_space_id
        THEN [status |-> 403, checks |-> <<"thread_exists", "thread_space">>]
        ELSE [status |-> 200, checks |-> <<"thread_exists", "thread_space">>]

\* handle_new_chat from line 323 on, after the tests of checks: the search
\* space is fetched (space_fails: the database is out of reach, which the
\* last except clause turns into 500), the permission is asked for and
\* stream_new_chat is called
chat_in_search_space(spaces, granted, request, space_fails, checks) ==
    LET perm == check_permission(granted, request.search_space_id,
                                 "CHATS_CREATE")
    IN  IF space_fails THEN [status |-> 500, checks |-> checks]
        ELSE IF request.search_space_id \notin spaces
        THEN [status |-> 404, checks |-> checks \o <<"space_exists">>]
        ELSE IF perm # 200
        THEN [status |-> perm,
              checks |-> checks \o <<"space_exists", "permission">>]
        ELSE [status |-> 200,
              checks |-> checks \o <<"space_exists", "permission", "stream">>]

\* handle_new_chat as it was before the thread was verified
handle_new_chat_unverified(stored, spaces, granted, request, select_fails, space_fails) ==
    chat_in_search_space(spaces, granted, request, space_fails, <<>>)

\* handle_new_chat(request): the status and what was tested and done, in
\* order ("stream": stream_new_chat was called)
handle_new_chat(stored, spaces, granted, request, select_fails, space_fails) ==
    LET chat_id == request.chat_id
        verified == verify_thread_access(stored, chat_id.n,
                                         request.search_space_id, select_fails)
    IN  IF ~chat_id.none /\ chat_id.n # 0 /\ chat_id.n > 0
        THEN IF verified.status # 200 THEN verified
             ELSE chat_in_search_space(spaces, granted, request, space_fails,
                                       verified.checks)
        ELSE chat_in_search_space(spaces, granted, request, space_fails, <<>>)

\* the kinds of file process_attachment tells apart by extension
TextExtensions == {".md", ".markdown", ".txt"}
AudioExtensions == {".mp3", ".mp4", ".mpeg", ".mpga", ".m4a", ".wav", ".webm"}
EtlServices == {"UNSTRUCTURED", "LLAMACLOUD", "DOCLING"}

\* a name for a temporary file that no file on disk has
mkstemp(files) == CHOOSE n \in 1..(Cardinality(files) + 1) : n \notin files

\* what process_attachment hands back: the status, the files on disk and
\* the temporary file it created (0: none)
Processed(status, files, temp_path) ==
    [status |-> status, files |-> files, temp_path |-> temp_path]

\* process_attachment(file) with the configuration config.  file: the
\* filename ("" when none), its extension in lower case, what the
\* extraction that fits the extension makes of it ("text", "empty", or
\* "raises" when it fails), and whether creating or reading and writing the
\* temporary file fails
process_attachment(files, config, file) ==
    LET temp_path == mkstemp(files)
        created == files \cup {temp_path}
        unlinked == created \ {temp_path}
    IN  IF file.filename = "" THEN Processed(400, files, 0)
        ELSE IF file.save = "create_fails" THEN Processed(500, files, 0)
        ELSE IF file.save = "write_fails" THEN Processed(500, unlinked, temp_path)
        ELSE IF file.ext \in AudioExtensions /\ config.STT_SERVICE = ""
        THEN Processed(422, created, temp_path)
        ELSE IF /\ file.ext \notin TextExtensions \cup AudioExtensions
                /\ config.ETL_SERVICE \notin EtlServices
        THEN Processed(422, created, temp_path)
        ELSE IF file.extraction = "raises"
        THEN Processed(500, unlinked, temp_path)
        ELSE IF file.extraction = "empty"
        THEN Processed(422, unlinked, temp_path)
        ELSE Processed(200, unlinked, temp_path)

\* ------------------------------------------------------------------ state
\* the processes, each with its own configuration and module globals
Procs == {"p1", "p2"}
\* the threads that call into the module concurrently, all of process p1
Threads == {"t1", "t2"}
ProcOf(t) == "p1"
\* a configured SECRET_KEY
Secret1 == <<"B">>
Secrets == {PyNone, PyStr(<<>>), PyStr(Secret1)}
Envs == {NoEnv, "production", "development"}

\* the strings the application encrypts and the legacy rows hold: "", "A",
\* "A!", "A!A", ... up to MaxLen characters
Text(n) == [i \in 1..n |-> IF i % 2 = 1 THEN "A" ELSE "!"]
Plaintexts == {Text(n) : n \in 0..MaxLen}
\* strings that decode as base64 and start with the version byte, yet are no
\* tokens: too short, and with a tag that no key gives
Malformed == {<<"E", "A", "=", "=">>, <<"E", "A", "A", "A", "A", "A", "A", "A">>}

VARIABLES
    SECRET_KEY,     \* config.SECRET_KEY of each process
    ENVIRONMENT,    \* the ENVIRONMENT variable of each process
    _fernet,        \* the module global _fernet of each process
    column,         \* the stored value of one EncryptedString column of one row
    ret,            \* the call that returned last: who, what, argument, outcome
    pc,             \* where each thread stands in its call
    call,           \* the call each thread is in (replaced: its line 37 ran when
                    \* another thread had stored a Fernet object already)
    history,        \* the last two encrypt_value calls, oldest first, each with
                    \* the initialisation vector it drew
    db,             \* the stored threads and messages
    session,        \* the session of the last ChatService call, as it left it
    granted,        \* the (search space, permission) pairs the user holds
    spaces,         \* the ids of the search spaces that exist
    clock,          \* datetime.now(UTC)
    resp,           \* the last answer of a chat route: to what, and the status
    tmpfiles,       \* the temporary files on disk
    app_config      \* app.config.config

vars == <<SECRET_KEY, ENVIRONMENT, _fernet, column, ret, pc, call, history,
          db, session, granted, spaces, clock, resp, tmpfiles, app_config>>

\* what the calls into encryption.py that keep no history leave alone
elsewhere ==
    <<history, db, session, granted, spaces, clock, resp, tmpfiles, app_config>>

\* where a string came from: the token that an encrypt_value call of process
\* proc returned for plain with the Fernet object key (tok = FALSE: from no
\* token)
NoSrc == [tok |-> FALSE, proc |-> "", plain |-> <<>>, key |-> NoFernet,
          token |-> <<>>]
SrcOf(p, r, value) ==
    IF ~Raised(r.out) /\ value # <<>>
    THEN [tok |-> TRUE, proc |-> p, plain |-> value, key |-> r.fernet,
          token |-> r.out.val]
    ELSE NoSrc

\* an outcome whose value is a string, as an outcome whose value is str | None
StrOut(o) == IF Raised(o) THEN [exc |-> o.exc, val |-> PyNone]
             ELSE Ok(PyStr(o.val))

NoRet == [proc |-> "", op |-> "", arg |-> PyNone, out |-> Ok(PyNone),
          derived |-> FALSE, src |-> NoSrc]
NoCall == [op |-> "", value |-> <<>>, src |-> NoSrc, derived |-> FALSE,
           replaced |-> FALSE]

\* a row that holds NULL, and a row written before the column was encrypted
NullRow == [val |-> PyNone, written |-> PyNone, src |-> NoSrc]
LegacyRow(s) == [val |-> PyStr(s), written |-> PyStr(s), src |-> NoSrc]

\* ------------------------------------------------------------ chat: state
\* the titles that requests give a thread, the updates they ask for and the
\* outcomes of a commit
OldTitle == <<"T">>
Titles == {NewChat, OldTitle}
Unset == "unset"
ThreadUpdates ==
    {[title |-> t, archived |-> a] :
        t \in {PyNone, PyStr(OldTitle)}, a \in {Unset, "true"}}
CommitOutcomes == {"ok", "IntegrityError", "OperationalError"}
\* every way the database may fail a call
Faults == BOOLEAN \X CommitOutcomes
\* the permissions that the calls which write ask for
WritePermissions == {"CHATS_CREATE", "CHATS_UPDATE", "CHATS_DELETE"}

\* no request answered yet
NoResp == [op |-> "", status |-> 0, commit |-> "none", thread_id |-> 0,
           search_space_id |-> 0, role |-> NoRole, content |-> NoContent,
           chat_id |-> NoneInt, checks |-> <<>>, temp_path |-> 0]
\* the answer to a ChatService call op on thread_id (search_space_id, role
\* and content: what the request carried)
ServiceResp(op, r, thread_id, search_space_id, role, content) ==
    [op |-> op, status |-> r.status, commit |-> r.commit,
     thread_id |-> thread_id, search_space_id |-> search_space_id,
     role |-> role, content |-> content, chat_id |-> NoneInt,
     checks |-> <<>>, temp_path |-> 0]

\* the configuration process_attachment reads
NoConfig == [STT_SERVICE |-> "", ETL_SERVICE |-> ""]

\* no request has reached the chat routes
NoRequests ==
    /\ db = EmptyDb
    /\ session = Session(EmptyDb)
    /\ granted = {}
    /\ spaces = {}
    /\ clock = 1
    /\ resp = NoResp
    /\ tmpfiles = {}
    /\ app_config = NoConfig

\* after import: no Fernet object yet, no call made, every thread idle
Start ==
    /\ _fernet = [p \in Procs |-> NoFernet]
    /\ ret = NoRet
    /\ pc = [t \in Threads |-> "idle"]
    /\ call = [t \in Threads |-> NoCall]
    /\ history = <<>>
    /\ NoRequests

\* one process under every configuration; the row holds NULL or legacy text
Init ==
    /\ Start
    /\ SECRET_KEY \in [Procs -> Secrets]
    /\ ENVIRONMENT \in [Procs -> Envs]
    /\ SECRET_KEY["p2"] = PyNone /\ ENVIRONMENT["p2"] = NoEnv
    /\ column \in {NullRow} \cup {LegacyRow(s) : s \in Plaintexts}

\* ---------------------------------------------------------------- actions
\* process p calls get_fernet()
GetFernet(p) ==
    LET g == get_fernet(_fernet[p], SECRET_KEY[p], ENVIRONMENT[p])
    IN  /\ _fernet' = [_fernet EXCEPT ![p] = g.fernet]
        /\ ret' = [proc |-> p, op |-> "get_fernet", arg |-> PyNone,
                   out |-> [exc |-> g.out.exc, val |-> PyNone],
                   derived |-> g.derived, src |-> NoSrc]
        /\ UNCHANGED <<SECRET_KEY, ENVIRONMENT, column, pc, call, elsewhere>>

\* process p calls encrypt_value(value)
EncryptValue(p, value) ==
    \E iv \in IVs :
        LET r == encrypt_value(_fernet[p], SECRET_KEY[p], ENVIRONMENT[p], value, iv)
        IN  /\ _fernet' = [_fernet EXCEPT ![p] = r.fernet]
            /\ ret' = [proc |-> p, op |-> "encrypt_value", arg |-> PyStr(value),
                       out |-> StrOut(r.out), derived |-> r.derived,
                       src |-> SrcOf(p, r, value)]
            /\ UNCHANGED <<SECRET_KEY, ENVIRONMENT, column, pc, call, elsewhere>>

\* process p calls decrypt_value(value); src tells where value came from
DecryptValue(p, value, src) ==
    LET r == decrypt_value(_fernet[p], SECRET_KEY[p], ENVIRONMENT[p], value)
    IN  /\ _fernet' = [_fernet EXCEPT ![p] = r.fernet]
        /\ ret' = [proc |-> p, op |-> "decrypt_value", arg |-> PyStr(value),
                   out |-> StrOut(r.out), derived |-> r.derived, src |-> src]
        /\ UNCHANGED <<SECRET_KEY, ENVIRONMENT, column, pc, call, elsewhere>>

\* the last call returned a token from encrypt_value
TokenReturned == ret.op = "encrypt_value" /\ ret.src.tok

\* process p decrypts a string that is no token
DecryptText(p) ==
    \E s \in Plaintexts \cup Malformed : DecryptValue(p, s, NoSrc)

\* process p decrypts the token that the last encrypt_value call returned
DecryptToken(p) ==
    /\ TokenReturned
    /\ DecryptValue(p, ret.src.token, ret.src)

\* process p decrypts that token with one character changed
DecryptTampered(p) ==
    /\ TokenReturned
    /\ \E i \in 1..Len(ret.src.token) :
         \E c \in Chars \ {ret.src.token[i]} :
            DecryptValue(p, [ret.src.token EXCEPT ![i] = c], ret.src)

\* process p writes value to the column: the ORM stores what
\* process_bind_param returns, and nothing when it raises
BindParam(p, value) ==
    \E iv \in IVs :
        LET r == process_bind_param(_fernet[p], SECRET_KEY[p], ENVIRONMENT[p],
                                    value, iv)
            o == IF value.none THEN r.out ELSE StrOut(r.out)
        IN  /\ _fernet' = [_fernet EXCEPT ![p] = r.fernet]
            /\ column' = IF Raised(r.out) THEN column
                         ELSE [val |-> o.val, written |-> value,
                               src |-> IF value.none THEN NoSrc
                                       ELSE SrcOf(p, r, value.s)]
            /\ ret' = [proc |-> p, op |-> "process_bind_param", arg |-> value,
                       out |-> o, derived |-> r.derived, src |-> NoSrc]
            /\ UNCHANGED <<SECRET_KEY, ENVIRONMENT, pc, call, elsewhere>>

\* process p reads the column: the ORM hands the stored value to
\* process_result_value
ResultValue(p) ==
    LET r == process_result_value(_fernet[p], SECRET_KEY[p], ENVIRONMENT[p],
                                  column.val)
    IN  /\ _fernet' = [_fernet EXCEPT ![p] = r.fernet]
        /\ ret' = [proc |-> p, op |-> "process_result_value", arg |-> column.val,
                   out |-> IF column.val.none THEN r.out ELSE StrOut(r.out),
                   derived |-> r.derived, src |-> column.src]
        /\ UNCHANGED <<SECRET_KEY, ENVIRONMENT, column, pc, call, elsewhere>>

\* the values the application writes to the column
ColumnValues == {PyNone} \cup {PyStr(s) : s \in Plaintexts}

\* ------------------------------------------- one process, calls in sequence
Next ==
    \/ GetFernet("p1")
    \/ \E s \in Plaintexts : EncryptValue("p1", s)
    \/ DecryptText("p1")
    \/ DecryptToken("p1")
    \/ \E v \in ColumnValues : BindParam("p1", v)
    \/ ResultValue("p1")

Spec == Init /\ [][Next]_vars

\* -------------------------------- two processes that hand each other tokens
\* two processes, each under every configuration; the row holds NULL
InitPeers ==
    /\ Start
    /\ SECRET_KEY \in [Procs -> Secrets]
    /\ ENVIRONMENT \in [Procs -> Envs]
    /\ column = NullRow

NextPeers ==
    \E p \in Procs :
        \/ \E s \in Plaintexts : EncryptValue(p, s)
        \/ DecryptText(p)
        \/ DecryptToken(p)

SpecPeers == InitPeers /\ [][NextPeers]_vars

\* ------------------------------- one process that is handed changed tokens
\* one process under every configuration; the row holds NULL
InitOne ==
    /\ Start
    /\ SECRET_KEY \in [Procs -> Secrets]
    /\ ENVIRONMENT \in [Procs -> Envs]
    /\ SECRET_KEY["p2"] = PyNone /\ ENVIRONMENT["p2"] = NoEnv
    /\ column = NullRow

NextTamper ==
    \/ \E s \in Plaintexts : EncryptValue("p1", s)
    \/ DecryptToken("p1")
    \/ DecryptTampered("p1")

SpecTamper == InitOne /\ [][NextTamper]_vars

\* ------------------------------ one process that encrypts again and again
\* process p calls encrypt_value(value); the call and the initialisation
\* vector that os.urandom gave it are kept, with the call before it
EncryptSuccessive(p, value) ==
    \E iv \in IVs :
        LET r == encrypt_value(_fernet[p], SECRET_KEY[p], ENVIRONMENT[p], value, iv)
        IN  /\ _fernet' = [_fernet EXCEPT ![p] = r.fernet]
            /\ ret' = [proc |-> p, op |-> "encrypt_value", arg |-> PyStr(value),
                       out |-> StrOut(r.out), derived |-> r.derived,
                       src |-> SrcOf(p, r, value)]
            /\ history' = Append(IF Len(history) = 2 THEN Tail(history)
                                 ELSE history,
                                 [proc |-> p, arg |-> value, iv |-> iv,
                                  out |-> r.out, key |-> r.fernet])
            /\ UNCHANGED <<SECRET_KEY, ENVIRONMENT, column, pc, call>>
            /\ UNCHANGED <<db, session, granted, spaces, clock, resp, tmpfiles,
                           app_config>>

NextSuccessive ==
    \/ \E s \in Plaintexts : EncryptSuccessive("p1", s)
    \/ DecryptToken("p1")

SpecSuccessive == InitOne /\ [][NextSuccessive]_vars

\* ------------------------------------- threads of one process, step by step
\* thread t enters encrypt_value or decrypt_value: the empty string returns at
\* once; otherwise get_fernet() tests the global (line 36)
Enter(t, op, value, src) ==
    /\ pc[t] = "idle"
    /\ IF value = <<>>
       THEN /\ ret' = [proc |-> ProcOf(t), op |-> op, arg |-> PyStr(value),
                       out |-> Ok(PyStr(value)), derived |-> FALSE, src |-> src]
            /\ UNCHANGED <<pc, call, elsewhere>>
       ELSE /\ pc' = [pc EXCEPT ![t] =
                        IF _fernet[ProcOf(t)].none THEN "construct" ELSE "return"]
            /\ call' = [call EXCEPT ![t] = [op |-> op, value |-> value,
                                            src |-> src, derived |-> FALSE,
                                            replaced |-> FALSE]]
            /\ UNCHANGED ret
    /\ UNCHANGED <<SECRET_KEY, ENVIRONMENT, _fernet, column, elsewhere>>

\* thread t calls encrypt_value
EnterEncrypt(t) ==
    \E s \in Plaintexts : Enter(t, "encrypt_value", s, NoSrc)

\* thread t calls decrypt_value on a string that is no token
EnterDecryptText(t) ==
    \E s \in Plaintexts : Enter(t, "decrypt_value", s, NoSrc)

\* thread t calls decrypt_value on the token encrypt_value returned last
EnterDecryptToken(t) ==
    /\ TokenReturned
    /\ Enter(t, "decrypt_value", ret.src.token, ret.src)

\* thread t, having seen _fernet is None, runs line 37; an exception leaves
\* encrypt_value, and is caught in decrypt_value
Construct(t) ==
    /\ pc[t] = "construct"
    /\ LET p == ProcOf(t)
           g == construct_fernet(_fernet[p], SECRET_KEY[p], ENVIRONMENT[p])
       IN  /\ _fernet' = [_fernet EXCEPT ![p] = g.fernet]
           /\ IF Raised(g.out)
              THEN /\ ret' = [proc |-> p, op |-> call[t].op,
                              arg |-> PyStr(call[t].value),
                              out |-> IF call[t].op = "decrypt_value"
                                      THEN StrOut(except_Exception(g.out, call[t].value))
                                      ELSE StrOut(g.out),
                              derived |-> TRUE, src |-> call[t].src]
                   /\ pc' = [pc EXCEPT ![t] = "idle"]
                   /\ call' = [call EXCEPT ![t] = NoCall]
              ELSE /\ pc' = [pc EXCEPT ![t] = "return"]
                   /\ call' = [call EXCEPT ![t].derived = TRUE,
                                            ![t].replaced = ~_fernet[p].none]
                   /\ UNCHANGED ret
    /\ UNCHANGED <<SECRET_KEY, ENVIRONMENT, column, elsewhere>>

\* thread t runs line 38, return _fernet, and the rest of its call with the
\* object it got
Return(t) ==
    /\ pc[t] = "return"
    /\ LET p == ProcOf(t)
           f == _fernet[p]
       IN  \E iv \in IVs :
             LET o == IF call[t].op = "encrypt_value"
                      THEN encrypt_with(f, call[t].value, iv)
                      ELSE except_Exception(decrypt_with(f, call[t].value),
                                            call[t].value)
             IN  ret' = [proc |-> p, op |-> call[t].op,
                         arg |-> PyStr(call[t].value), out |-> StrOut(o),
                         derived |-> call[t].derived,
                         src |-> IF call[t].op = "encrypt_value"
                                 THEN SrcOf(p, [out |-> o, fernet |-> f],
                                            call[t].value)
                                 ELSE call[t].src]
    /\ pc' = [pc EXCEPT ![t] = "idle"]
    /\ call' = [call EXCEPT ![t] = NoCall]
    /\ UNCHANGED <<SECRET_KEY, ENVIRONMENT, _fernet, column, elsewhere>>

NextRace ==
    \E t \in Threads :
        \/ EnterEncrypt(t)
        \/ EnterDecryptText(t)
        \/ EnterDecryptToken(t)
        \/ Construct(t)
        \/ Return(t)

SpecRace == InitOne /\ [][NextRace]_vars

\* no call has reached encryption.py
NoEncryption ==
    /\ SECRET_KEY = [p \in Procs |-> PyNone]
    /\ ENVIRONMENT = [p \in Procs |-> NoEnv]
    /\ _fernet = [p \in Procs |-> NoFernet]
    /\ column = NullRow
    /\ ret = NoRet
    /\ pc = [t \in Threads |-> "idle"]
    /\ call = [t \in Threads |-> NoCall]
    /\ history = <<>>

\* what the chat routes leave alone
encryption_vars ==
    <<SECRET_KEY, ENVIRONMENT, _fernet, column, ret, pc, call, history>>

\* a ChatService call has answered r: the rows and the session are as it
\* left them, and time has passed when it wrote
Answered(r, answer) ==
    /\ db' = r.db
    /\ session' = r.session
    /\ clock' = IF r.status = 200 THEN clock + 1 ELSE clock
    /\ resp' = answer
    /\ UNCHANGED <<granted, spaces, tmpfiles, app_config, encryption_vars>>

\* POST /threads
CreateThread ==
    /\ clock < MaxClock /\ db.next_id <= MaxThreads
    /\ \E space \in SpaceIds, title \in Titles, outcome \in CommitOutcomes :
         LET thread_data == [title |-> title, archived |-> FALSE,
                             search_space_id |-> space]
             r == create_thread(db, granted, clock, thread_data, outcome)
         IN  Answered(r, ServiceResp("create_thread", r, 0, space, NoRole,
                                     NoContent))

\* PUT /threads/{thread_id}
UpdateThread ==
    /\ clock < MaxClock
    /\ \E id \in ThreadIds, thread_update \in ThreadUpdates,
          select_fails \in BOOLEAN, outcome \in CommitOutcomes :
         LET r == update_thread(db, granted, clock, id, thread_update,
                                select_fails, outcome)
         IN  Answered(r, ServiceResp("update_thread", r, id, 0, NoRole,
                                     NoContent))

\* DELETE /threads/{thread_id}
DeleteThread ==
    /\ clock < MaxClock
    /\ \E id \in ThreadIds, select_fails \in BOOLEAN,
          outcome \in CommitOutcomes :
         LET r == delete_thread(db, granted, id, select_fails, outcome)
         IN  Answered(r, ServiceResp("delete_thread", r, id, 0, NoRole,
                                     NoContent))

\* POST /threads/{thread_id}/messages with a role and a content of the
\* given sets; faults: whether fetching the thread fails, and how the
\* commit goes
AppendMessage(roles, contents, faults) ==
    /\ clock < MaxClock
    /\ \E id \in ThreadIds, role \in roles, content \in contents,
          fault \in faults :
         LET r == append_message_route(db, granted, clock, id, role, content,
                                       fault[1], fault[2])
         IN  Answered(r, ServiceResp("append_message", r, id, 0, role,
                                     content))

\* ------------------------------------- chat: threads and their permissions
Hello == <<"h", "i">>
ChatRoles == {NoRole, "user", "tool"}
ChatContents == {NoContent, StrContent(Hello)}

\* what the user may hold: any set of write permissions in search space 1,
\* and none or all of them in search space 2
Grants ==
    {({1} \X held) \cup ({2} \X other) :
        held \in SUBSET WritePermissions, other \in {{}, WritePermissions}}

\* no thread yet
InitChat ==
    /\ NoEncryption
    /\ db = EmptyDb
    /\ session = Session(EmptyDb)
    /\ granted \in Grants
    /\ spaces = SpaceIds
    /\ clock = 1
    /\ resp = NoResp
    /\ tmpfiles = {}
    /\ app_config = NoConfig

NextChat ==
    \/ CreateThread
    \/ UpdateThread
    \/ DeleteThread
    \/ AppendMessage(ChatRoles, ChatContents, Faults)

SpecChat == InitChat /\ [][NextChat]_vars

\* --------------------------------------------------- chat: the auto-title
\* n times the character c
Repeat(c, n) == [i \in 1..n |-> c]
\* message texts: none, as long as a title may be, one longer
TitleTexts == {<<>>, Repeat("b", TitleLimit), Repeat("c", TitleLimit + 1)}
\* the contents that carry them
TitleContents ==
    {StrContent(t) : t \in TitleTexts} \cup
    {ListContent(<<ImagePart, NumberPart, TextPart(NewChat), StrPart(Hello)>>),
     ListContent(<<TextPartNoKey, TextPart(Hello)>>),
     ListContent(<<TextPartNumber>>),
     OtherContent(<<"5">>)}
TitleRoles == {"user", "USER", "assistant"}
\* the commit goes through or fails
TitleFaults == {<<FALSE, "ok">>, <<FALSE, "OperationalError">>}

\* one thread, named or not, in a search space where the user may update
InitTitle ==
    /\ NoEncryption
    /\ \E title \in Titles :
          db = [EmptyDb EXCEPT
                  !.threads[1] = NewChatThread(title, FALSE, 1, 0),
                  !.next_id = 2]
    /\ session = Session(db)
    /\ granted = {<<1, "CHATS_UPDATE">>}
    /\ spaces = SpaceIds
    /\ clock = 1
    /\ resp = NoResp
    /\ tmpfiles = {}
    /\ app_config = NoConfig

NextTitle == AppendMessage(TitleRoles, TitleContents, TitleFaults)

SpecTitle == InitTitle /\ [][NextTitle]_vars

\* ------------------------------------------------- chat: the chat stream
\* the chat ids that requests name: none, zero, a negative number, the id
\* of every thread there may be and one beyond
ChatIds == {NoneInt, PyInt(0), PyInt(0 - 1)} \cup {PyInt(i) : i \in 1..(MaxThreads + 1)}

\* POST /new_chat
HandleNewChat ==
    \E chat_id \in ChatIds, space \in SpaceIds,
       select_fails \in BOOLEAN, space_fails \in BOOLEAN :
        LET request == [chat_id |-> chat_id, search_space_id |-> space]
            r == handle_new_chat(db, spaces, granted, request, select_fails,
                                 space_fails)
        IN  /\ resp' = [NoResp EXCEPT !.op = "handle_new_chat",
                                      !.status = r.status,
                                      !.chat_id = chat_id,
                                      !.search_space_id = space,
                                      !.checks = r.checks]
            /\ UNCHANGED <<db, session, granted, spaces, clock, tmpfiles,
                           app_config, encryption_vars>>

\* some search spaces exist, each thread id is free or the id of an
\* unnamed thread of one of them, and the user holds CHATS_CREATE in some
\* search spaces
InitNewChat ==
    /\ NoEncryption
    /\ spaces \in SUBSET SpaceIds
    /\ \E threads \in [ThreadIds ->
                         {NoThread} \cup
                         {NewChatThread(NewChat, FALSE, sp, 0) : sp \in spaces}] :
          db = [EmptyDb EXCEPT !.threads = threads, !.next_id = MaxThreads + 1]
    /\ session = Session(db)
    /\ granted \in SUBSET (SpaceIds \X {"CHATS_CREATE"})
    /\ clock = 1
    /\ resp = NoResp
    /\ tmpfiles = {}
    /\ app_config = NoConfig

NextNewChat == HandleNewChat

SpecNewChat == InitNewChat /\ [][NextNewChat]_vars

\* --------------------------------------------------- chat: attachments
\* the uploads: no filename, a text file, an audio file, a document
Uploads ==
    {[filename |-> IF ext = "" THEN "" ELSE "upload" \o ext, ext |-> ext,
      extraction |-> x, save |-> s] :
        ext \in {"", ".txt", ".mp3", ".pdf"},
        x \in {"text", "empty", "raises"},
        s \in {"saved", "create_fails", "write_fails"}}

\* the configurations: no speech-to-text service, a local or an external
\* one; no ETL service or one of the three
Configs ==
    [STT_SERVICE : {"", "local/base", "openai/whisper-1"},
     ETL_SERVICE : {""} \cup EtlServices]

\* POST /attachments/process
ProcessAttachment ==
    /\ Cardinality(tmpfiles) < MaxFiles
    /\ \E file \in Uploads :
         LET r == process_attachment(tmpfiles, app_config, file)
         IN  /\ tmpfiles' = r.files
             /\ resp' = [NoResp EXCEPT !.op = "process_attachment",
                                       !.status = r.status,
                                       !.temp_path = r.temp_path]
             /\ UNCHANGED <<db, session, granted, spaces, clock, app_config,
                            encryption_vars>>

\* no temporary file on disk, under every configuration
InitAttachment ==
    /\ NoEncryption
    /\ db = EmptyDb
    /\ session = Session(EmptyDb)
    /\ granted = {}
    /\ spaces = SpaceIds
    /\ clock = 1
    /\ resp = NoResp
    /\ tmpfiles = {}
    /\ app_config \in Configs

NextAttachment == ProcessAttachment

SpecAttachment == InitAttachment /\ [][NextAttachment]_vars

\* ================================================================ properties
\* the Fernet object the configuration of process p derives (NoFernet when
\* key derivation raises)
DerivedFernet(p) ==
    LET key == get_encryption_key(SECRET_KEY[p], ENVIRONMENT[p])
    IN  IF Raised(key) THEN NoFernet ELSE Fernet(key.val).val

\* SECRET_KEY is empty and the deployment is marked production
ProductionNoSecret(p) ==
    ~Truthy(SECRET_KEY[p]) /\ ENVIRONMENT[p] = "production"

\* the last call was op(arg) for a non-empty arg
ReturnedFrom(op) == ret.op = op /\ ret.arg # PyStr(<<>>)

\* the last call was decrypt_value of an unchanged token of encrypt_value
DecryptedToken ==
    ret.op = "decrypt_value" /\ ret.src.tok /\ ret.arg = PyStr(ret.src.token)

\* C1: decrypt_value(encrypt_value(P)) = P for every non-empty P, whenever the
\* process that decrypts derives the key the token was made with, whether
\* its Fernet object existed before the call or was constructed by it
Thm_C1_RoundTrip ==
    (DecryptedToken /\ DerivedFernet(ret.proc) = ret.src.key)
        => ret.out = Ok(PyStr(ret.src.plain))

\* a token of another process decrypts in a call that constructs the object
Wit_C1_RoundTrip ==
    /\ DecryptedToken /\ DerivedFernet(ret.proc) = ret.src.key
    /\ ret.derived /\ ret.src.proc # ret.proc
    /\ ret.out = Ok(PyStr(ret.src.plain))

\* C2: decrypt_value never raises, and a value that is no token of the key in
\* use (legacy text, a token of another key, no key at all because key
\* derivation raises) comes back unchanged
Thm_C2_DecryptNeverRaises ==
    ret.op = "decrypt_value" =>
        /\ ~Raised(ret.out)
        /\ (~ret.src.tok \/ DerivedFernet(ret.proc) # ret.src.key)
              => ret.out = Ok(ret.arg)

\* a token made under another key comes back unchanged
Wit_C2_DecryptNeverRaises ==
    /\ DecryptedToken
    /\ ~_fernet[ret.proc].none /\ _fernet[ret.proc] # ret.src.key
    /\ ret.out = Ok(ret.arg)

\* C3: a token with any one character changed comes back from decrypt_value
\* as it went in: no exception, and never the plaintext
CE_C3_TamperDetected ==
    (ret.op = "decrypt_value" /\ ret.src.tok /\ ret.arg # PyStr(ret.src.token))
        => /\ ~Raised(ret.out)
           /\ ret.out # Ok(PyStr(ret.src.plain))
           /\ ret.out = Ok(ret.arg)

\* the bytes a string decodes to as base64 (<<>> when it does not decode)
TokenBytes(s) ==
    LET d == urlsafe_b64decode(str_encode(s))
    IN  IF Raised(d) THEN <<>> ELSE d.val

\* what does hold of a changed token: it comes back as it went in whenever
\* the change reaches the bytes the token decodes to
ChangedBytesDetected ==
    (/\ ret.op = "decrypt_value" /\ ret.src.tok
     /\ TokenBytes(ret.arg.s) # TokenBytes(ret.src.token))
        => ret.out = Ok(ret.arg)

\* C4 as claimed: with no secret in production every encrypt_value and every
\* decrypt_value of a non-empty value raises, and _fernet stays None
CE_C4_ProductionFailsLoudly ==
    \A p \in Procs :
        ProductionNoSecret(p) =>
            /\ _fernet[p].none
            /\ (ret.proc = p /\ (ReturnedFrom("encrypt_value")
                                 \/ ReturnedFrom("decrypt_value")))
                 => Raised(ret.out)

\* C4 as the code has it: with no secret in production _fernet stays None,
\* get_fernet and every encrypt_value of a non-empty value raise ValueError,
\* and every decrypt_value of a non-empty value returns its argument
Thm_C4_ProductionEncryptFails ==
    \A p \in Procs :
        ProductionNoSecret(p) =>
            /\ _fernet[p].none
            /\ (ret.proc = p /\ ret.op = "get_fernet")
                 => ret.out.exc = "ValueError"
            /\ (ret.proc = p /\ ReturnedFrom("encrypt_value"))
                 => (ret.out.exc = "ValueError" /\ ret.derived)
            /\ (ret.proc = p /\ ReturnedFrom("decrypt_value"))
                 => (ret.out = Ok(ret.arg) /\ ret.derived)

\* encrypt_value has raised in production with no secret
Wit_C4_ProductionEncryptFails ==
    /\ ReturnedFrom("encrypt_value")
    /\ ProductionNoSecret(ret.proc)
    /\ ret.out.exc = "ValueError"

\* the Fernet object of the fallback secret
FallbackFernet ==
    Fernet(urlsafe_b64encode(sha256(str_encode(DefaultSecret)))).val

\* C5: with no secret outside production (ENVIRONMENT unset included) key
\* derivation does not raise and gives the key of the fallback secret:
\* get_fernet and encrypt_value return, and the object they construct is
\* the one a process configured with the fallback secret constructs
Thm_C5_FallbackSecret ==
    \A p \in Procs :
        (~Truthy(SECRET_KEY[p]) /\ ENVIRONMENT[p] # "production") =>
            /\ ret.proc = p => ~Raised(ret.out)
            /\ (ret.proc = p /\ ret.derived) => _fernet[p] = FallbackFernet
            /\ (ret.proc = p /\ ReturnedFrom("encrypt_value")) =>
                  (ret.src.tok /\ ret.src.key = FallbackFernet)
            /\ ~_fernet[p].none => _fernet[p] = FallbackFernet

\* with SECRET_KEY and ENVIRONMENT both unset, encrypt_value has derived the
\* key and returned a token
Wit_C5_FallbackSecret ==
    /\ ReturnedFrom("encrypt_value")
    /\ SECRET_KEY[ret.proc] = PyNone /\ ENVIRONMENT[ret.proc] = NoEnv
    /\ ret.derived /\ ret.src.tok

\* C6: encrypt_value("") and decrypt_value("") return "" under every
\* configuration, without touching the key or the Fernet object
Thm_C6_EmptyString ==
    (ret.op \in {"encrypt_value", "decrypt_value"} /\ ret.arg = PyStr(<<>>))
        => (ret.out = Ok(PyStr(<<>>)) /\ ~ret.derived /\ ~ret.src.tok)

\* encrypt_value("") has returned "" in production with no secret
Wit_C6_EmptyString ==
    /\ ret.op = "encrypt_value" /\ ret.arg = PyStr(<<>>)
    /\ ProductionNoSecret(ret.proc)
    /\ ret.out = Ok(PyStr(<<>>))

\* C7: two processes with the same SECRET_KEY that both derive a key derive
\* the same one, and a token of one decrypts to its plaintext in the other
Thm_C7_SameSecretSameKey ==
    /\ \A p, q \in Procs :
         (SECRET_KEY[p] = SECRET_KEY[q] /\ ~_fernet[p].none /\ ~_fernet[q].none)
            => _fernet[p] = _fernet[q]
    /\ (/\ DecryptedToken /\ ret.src.proc # ret.proc
        /\ SECRET_KEY[ret.src.proc] = SECRET_KEY[ret.proc]
        /\ ~_fernet[ret.proc].none)
          => ret.out = Ok(PyStr(ret.src.plain))

\* a process has decrypted the token of another process that has the same
\* configured secret
Wit_C7_SameSecretSameKey ==
    /\ DecryptedToken /\ ret.src.proc # ret.proc
    /\ SECRET_KEY[ret.src.proc] = SECRET_KEY[ret.proc]
    /\ Truthy(SECRET_KEY[ret.proc])
    /\ ret.out = Ok(PyStr(ret.src.plain))

\* C8: _fernet is None until a call derives the key and constructs it; once
\* constructed, no call replaces it or derives the key again
Thm_C8_ConstructedOnce ==
    [][\A p \in Procs :
          /\ (_fernet[p].none /\ ~_fernet'[p].none)
                => (ret'.proc = p /\ ret'.derived)
          /\ ~_fernet[p].none
                => (_fernet'[p] = _fernet[p]
                    /\ (ret'.proc = p => ~ret'.derived))]_vars

\* encrypt_value has returned a token made with the object an earlier call
\* constructed
Wit_C8_ConstructedOnce ==
    /\ ReturnedFrom("encrypt_value") /\ ret.src.tok
    /\ ~ret.derived /\ ret.src.key = _fernet[ret.proc]

\* C9: when the threads of a process race through get_fernet, several of
\* them may construct a Fernet object, yet no thread ever works with
\* anything but the object of the one derived key: every token decrypts to
\* its plaintext in every thread
Thm_C9_RaceHarmless ==
    /\ \A t \in Threads :
          pc[t] = "return" => _fernet[ProcOf(t)] = DerivedFernet(ProcOf(t))
    /\ \A p \in Procs : ~_fernet[p].none => _fernet[p] = DerivedFernet(p)
    /\ ret.src.tok => ret.src.key = DerivedFernet(ret.src.proc)
    /\ DecryptedToken => ret.out = Ok(PyStr(ret.src.plain))

\* a token has been decrypted to its plaintext while another thread is
\* about to return the second Fernet object the process has constructed
Wit_C9_RaceHarmless ==
    /\ DecryptedToken
    /\ ret.out = Ok(PyStr(ret.src.plain))
    /\ \E t \in Threads : pc[t] = "return" /\ call[t].replaced

\* C10: reading the column returns the value written last (the empty string
\* and NULL included), and a legacy row reads back as its stored text
Thm_C10_ColumnTransparent ==
    ret.op = "process_result_value" => ret.out = Ok(column.written)

\* a row that holds a token has been read back as the string written
Wit_C10_ColumnTransparent ==
    /\ ret.op = "process_result_value" /\ column.src.tok
    /\ column.val # column.written
    /\ ret.out = Ok(column.written)

\* C11: what process_bind_param hands to storage for a string is the string
\* itself exactly when the string is empty; for a non-empty string it is a
\* token of the process's Fernet object that decrypts to the string, and the
\* row then holds that token, never the string
Thm_C11_OpaqueAtRest ==
    (ret.op = "process_bind_param" /\ ~ret.arg.none /\ ~Raised(ret.out)) =>
        /\ (ret.out.val = ret.arg) <=> (ret.arg = PyStr(<<>>))
        /\ column.val = ret.out.val
        /\ ret.arg # PyStr(<<>>) =>
              /\ column.src.tok /\ column.val = PyStr(column.src.token)
              /\ column.val # column.written
              /\ decrypt_with(_fernet[ret.proc], column.val.s) = Ok(ret.arg.s)

\* a non-empty string has been written and the row holds a token
Wit_C11_OpaqueAtRest ==
    /\ ret.op = "process_bind_param" /\ Truthy(ret.arg) /\ ~Raised(ret.out)
    /\ column.src.tok /\ column.val # ret.arg

\* C12: process_bind_param(None) and process_result_value(None) return None
\* under every configuration, production with no secret included: the call
\* does not raise, derives no key and leaves _fernet as it was
Thm_C12_NullPassthrough ==
    [][(ret'.op \in {"process_bind_param", "process_result_value"}
        /\ ret'.arg = PyNone)
          => /\ ret'.out = Ok(PyNone)
             /\ ~ret'.derived
             /\ _fernet' = _fernet]_vars

\* None has been written in production with no secret: NULL is stored and
\* no Fernet object exists
Wit_C12_NullPassthrough ==
    /\ ret.op = "process_bind_param" /\ ret.arg = PyNone
    /\ ProductionNoSecret(ret.proc) /\ _fernet[ret.proc].none
    /\ ret.out = Ok(PyNone) /\ column.val = PyNone

\* the last two encrypt_value calls were made by one process for the same
\* non-empty string and both returned
SuccessiveCalls ==
    /\ Len(history) = 2
    /\ history[1].proc = history[2].proc
    /\ history[1].arg = history[2].arg /\ history[1].arg # <<>>
    /\ ~Raised(history[1].out) /\ ~Raised(history[2].out)

\* the token of the i-th of them decrypts to its plaintext in that process
DecryptsBack(i) ==
    LET p == history[i].proc
    IN  decrypt_value(_fernet[p], SECRET_KEY[p], ENVIRONMENT[p],
                      history[i].out.val).out = Ok(history[i].arg)

\* C13 as claimed: two successive encrypt_value(P) calls with one key return
\* different tokens, and both tokens decrypt to P
CE_C13_CiphertextsDiffer ==
    SuccessiveCalls =>
        /\ history[1].key = history[2].key
        /\ history[1].out.val # history[2].out.val
        /\ DecryptsBack(1) /\ DecryptsBack(2)

\* C13 as the code has it: the two calls use one key, both tokens decrypt
\* to P, and the tokens differ whenever the calls drew different
\* initialisation vectors
Thm_C13_CiphertextsDifferByIV ==
    SuccessiveCalls =>
        /\ history[1].key = history[2].key
        /\ history[1].iv # history[2].iv
              => history[1].out.val # history[2].out.val
        /\ DecryptsBack(1) /\ DecryptsBack(2)

\* two calls for one string have drawn different initialisation vectors
\* and returned different tokens
Wit_C13_CiphertextsDifferByIV ==
    /\ SuccessiveCalls
    /\ history[1].iv # history[2].iv
    /\ history[1].out.val # history[2].out.val

\* the user holds permission in the search space of the stored thread id
Holds(id, permission) ==
    <<db.threads[id].search_space_id, permission>> \in granted

\* C14: a step that creates a thread is a create_thread call and the user
\* holds CHATS_CREATE in the search space of the new thread; a step that
\* changes a thread is an update_thread or append_message call, one that adds
\* a message an append_message call, and the user holds CHATS_UPDATE in the
\* search space the thread was stored with; a step that deletes a thread or
\* its messages is a delete_thread call made with CHATS_DELETE there.  A
\* call that names a missing thread or lacks the permission is answered 404
\* or 403 (unless it has failed before that test) and stores nothing
Thm_C14_WritesNeedPermission ==
    [][/\ \A id \in ThreadIds :
            db'.threads[id] # db.threads[id] =>
               IF ~db.threads[id].exists
               THEN /\ resp'.op = "create_thread"
                    /\ db'.threads[id].search_space_id = resp'.search_space_id
                    /\ <<resp'.search_space_id, "CHATS_CREATE">> \in granted
               ELSE IF ~db'.threads[id].exists
               THEN /\ resp'.op = "delete_thread" /\ resp'.thread_id = id
                    /\ Holds(id, "CHATS_DELETE")
               ELSE /\ resp'.op \in {"update_thread", "append_message"}
                    /\ resp'.thread_id = id
                    /\ Holds(id, "CHATS_UPDATE")
       /\ db'.messages # db.messages =>
            /\ db.threads[resp'.thread_id].exists
            /\ IF Len(db'.messages) > Len(db.messages)
               THEN /\ resp'.op = "append_message"
                    /\ Holds(resp'.thread_id, "CHATS_UPDATE")
                    /\ \E m \in {db'.messages[Len(db'.messages)]} :
                          /\ db'.messages = Append(db.messages, m)
                          /\ m.thread_id = resp'.thread_id
               ELSE /\ resp'.op = "delete_thread"
                    /\ Holds(resp'.thread_id, "CHATS_DELETE")
       /\ resp'.status \in {403, 404} => db' = db
       /\ (/\ resp'.op \in {"update_thread", "delete_thread", "append_message"}
           /\ ~db.threads[resp'.thread_id].exists)
             => (db' = db /\ resp'.status \in {404, 400, 503})
       /\ (/\ resp'.op \in {"update_thread", "append_message"}
           /\ db.threads[resp'.thread_id].exists
           /\ ~Holds(resp'.thread_id, "CHATS_UPDATE"))
             => (db' = db /\ resp'.status \in {403, 400, 503})
       /\ (/\ resp'.op = "delete_thread"
           /\ db.threads[resp'.thread_id].exists
           /\ ~Holds(resp'.thread_id, "CHATS_DELETE"))
             => (db' = db /\ resp'.status \in {403, 503})
       /\ (/\ resp'.op = "create_thread"
           /\ <<resp'.search_space_id, "CHATS_CREATE">> \notin granted)
             => (db' = db /\ resp'.status = 403)]_vars

\* a message has been added to a thread by a user who holds CHATS_UPDATE in
\* its search space and nothing in the other
Wit_C14_WritesNeedPermission ==
    /\ resp.op = "append_message" /\ resp.status = 200
    /\ Len(db.messages) = 1 /\ db.messages[1].thread_id = resp.thread_id
    /\ Holds(resp.thread_id, "CHATS_UPDATE")
    /\ \A sp \in SpaceIds \ {db.threads[resp.thread_id].search_space_id} :
          \A q \in WritePermissions : <<sp, q>> \notin granted

\* C18: a commit that fails with an integrity error ends the call with
\* HTTP 400, one that fails with an operational error with HTTP 503; either
\* way the session has been rolled back (it is usable and holds no change)
\* and the stored threads and messages are what they were.  An
\* append_message with a role that is no message role, on a thread the user
\* may update, ends with HTTP 400 without a commit and with no message in
\* the session
Thm_C18_FailedCommitLeavesNothing ==
    [][/\ resp'.commit = "IntegrityError" => resp'.status = 400
       /\ resp'.commit = "OperationalError" => resp'.status = 503
       /\ resp'.commit \in {"IntegrityError", "OperationalError"} =>
            /\ db' = db
            /\ session'.active /\ session'.view = db
       /\ (/\ resp'.op = "append_message"
           /\ resp'.role # NoRole /\ resp'.content # NoContent
           /\ lower(resp'.role) \notin NewChatMessageRole
           /\ resp'.status \notin {403, 404, 503})
             => /\ resp'.status = 400 /\ resp'.commit = "none"
                /\ db' = db /\ session'.view = db]_vars

\* the commit of an append_message has failed with an integrity error: the
\* thread is stored, the message is not
Wit_C18_FailedCommitLeavesNothing ==
    /\ resp.op = "append_message" /\ resp.commit = "IntegrityError"
    /\ resp.status = 400
    /\ db.threads[resp.thread_id].exists /\ db.messages = <<>>
    /\ session = Session(db)

\* the request that handle_new_chat has just answered names a thread
NamesThread == ~resp.chat_id.none /\ resp.chat_id.n > 0
\* the thread it names (NoThread when there is none)
NamedThread == select_thread(Session(db), resp.chat_id.n)
\* the tests of handle_new_chat in the order the claim gives them
ChecksInOrder ==
    (IF NamesThread THEN <<"thread_exists", "thread_space">> ELSE <<>>)
        \o <<"space_exists", "permission", "stream">>
\* the tests that the state lets pass, as a number: how far down
\* ChecksInOrder a request gets
Passing ==
    LET space == resp.search_space_id
        tests == (IF NamesThread
                  THEN <<NamedThread.exists,
                         NamedThread.search_space_id = space>>
                  ELSE <<>>)
                    \o <<space \in spaces, <<space, "CHATS_CREATE">> \in granted>>
        failing == {i \in 1..Len(tests) : ~tests[i]}
    IN  IF failing = {} THEN Len(tests)
        ELSE (CHOOSE i \in failing : \A j \in failing : i <= j) - 1

\* C15: handle_new_chat makes its tests in the order thread exists, thread
\* is of the request's search space (both only for a positive chat_id),
\* search space exists, user holds CHATS_CREATE there, and calls
\* stream_new_chat after the last: the tests it made are the first of that
\* list up to the first that fails, the failing test gives the status (404,
\* 403, 404, 403), and stream_new_chat is called only when all of them
\* passed, hence never for a thread of another search space
Thm_C15_StreamAfterChecks ==
    resp.op = "handle_new_chat" =>
        /\ Len(resp.checks) <= Len(ChecksInOrder)
        /\ resp.checks = SubSeq(ChecksInOrder, 1, Len(resp.checks))
        /\ resp.status \in {200, 403, 404} =>
              Len(resp.checks) = (IF resp.status = 200 THEN Len(ChecksInOrder)
                                  ELSE Passing + 1)
        /\ resp.status \in {403, 404} =>
              resp.status = (IF resp.checks[Len(resp.checks)]
                                  \in {"thread_exists", "space_exists"}
                             THEN 404 ELSE 403)
        /\ resp.status \in {500, 503} => Len(resp.checks) <= Passing
        /\ resp.status \in {200, 403, 404, 500, 503}
        /\ (\E i \in 1..Len(resp.checks) : resp.checks[i] = "stream") =>
              /\ resp.status = 200
              /\ Passing = Len(ChecksInOrder) - 1
              /\ NamesThread =>
                    /\ NamedThread.exists
                    /\ NamedThread.search_space_id = resp.search_space_id
              /\ resp.search_space_id \in spaces
              /\ <<resp.search_space_id, "CHATS_CREATE">> \in granted

\* a stream has been started for a thread of the request's search space
\* while a thread of another search space exists
Wit_C15_StreamAfterChecks ==
    /\ resp.op = "handle_new_chat" /\ resp.status = 200 /\ NamesThread
    /\ resp.checks = <<"thread_exists", "thread_space", "space_exists",
                       "permission", "stream">>
    /\ \E id \in ThreadIds :
          /\ db.threads[id].exists
          /\ db.threads[id].search_space_id # resp.search_space_id

\* the text of the message append_message has just answered (<<>>: none)
MessageText ==
    LET text == title_text(resp.content)
    IN  IF Raised(text) THEN <<>> ELSE text.val

\* C16: when an append_message step changes a thread's title, the title was
\* "New Chat", the role is user in some casing and the message has text; the
\* new title is that text when it has at most 100 characters, and its first
\* 100 characters followed by "..." (103 characters) when it has more.  A
\* title other than "New Chat" is left as it is by every append_message
Thm_C16_AutoTitle ==
    [][resp'.op = "append_message" =>
         \A id \in ThreadIds :
            LET old == db.threads[id].title
                new == db'.threads[id].title
                text == MessageText'
            IN  /\ old # NewChat => new = old
                /\ new # old =>
                     /\ id = resp'.thread_id /\ old = NewChat
                     /\ resp'.role \in {"user", "USER", "User"}
                     /\ text # <<>>
                     /\ Len(text) <= TitleLimit => new = text
                     /\ Len(text) > TitleLimit =>
                          /\ Len(new) = TitleLimit + 3
                          /\ \A i \in 1..TitleLimit : new[i] = text[i]
                          /\ \A i \in 1..3 : new[TitleLimit + i] = "."
                     /\ Len(new) <= 103]_vars

\* a user message of 101 characters has named the thread with 103
Wit_C16_AutoTitle ==
    /\ resp.op = "append_message" /\ resp.status = 200
    /\ Len(MessageText) = 101
    /\ Len(db.threads[resp.thread_id].title) = 103
    /\ db.threads[resp.thread_id].title[103] = "."

\* C17: when process_attachment has returned or raised, the temporary file
\* it created is no longer on disk
CE_C17_TempFileRemoved ==
    (resp.op = "process_attachment" /\ resp.temp_path # 0)
        => resp.temp_path \notin tmpfiles

\* what does hold: the file is gone whenever the call returns or answers
\* 500 (of the 422 answers, the two raised before line 517 leave it)
TempFileRemovedAfterProcessing ==
    (resp.op = "process_attachment" /\ resp.temp_path # 0
     /\ resp.status \in {200, 500})
        => resp.temp_path \notin tmpfiles

====
